---------------------------- MODULE Spec2Model ----------------------------
(***************************************************************************)
(* A model of natsv2.go: the wrapper `conn` over the external NATS client   *)
(* (src/main.go), its functional options, its encoding helpers, and the     *)
(* two `main` programs (src/main.go and src/unnamed/part_000).              *)
(*                                                                          *)
(* Go values are modelled as follows.  nil is the string "nil".  A string   *)
(* or a []byte is a sequence of byte values 0..255.  An error is a string   *)
(* naming it.  A functional option (a closure) is a record naming its       *)
(* builder and the values it captured.                                      *)
(***************************************************************************)
EXTENDS Integers, Sequences, FiniteSets, TLC

VARIABLES
  nc,      \* conn.nc: the external client held by the wrapper, or NIL
  ext,     \* the external client: the calls it has received, whether it is open
  last,    \* the most recent call made on the wrapper, with what it returned
  first,   \* the first Subscribe/Request/Handle call of the run, with what it returned
  gs,      \* the goroutines calling the wrapper concurrently: where each one is
  proc,    \* a running program (one of the two main functions): where it is
  enc      \* the encoding helpers: an input and the stages computed from it

vars == <<nc, ext, last, first, gs, proc, enc>>

NIL == "nil"
Client == "client"

(***************************************************************************)
(* Bounds of the model.                                                     *)
(***************************************************************************)
MaxOpts == 2        \* longest option list passed to Subscribe / Request
MaxPublishes == 2   \* publish calls the external client receives in one run
MaxChars == 2       \* longest string given to JSON
MaxBytes == 2       \* longest byte string given to Gzip and Base64

(***************************************************************************)
(* Finite sequences over S of length at most n.                             *)
(***************************************************************************)
SeqsUpTo(S, n) == UNION {[1..k -> S] : k \in 0..n}

(***************************************************************************)
(* SubOptions and its builders (main.go 32-51).                             *)
(***************************************************************************)
\* Mutant: the options structure of the previous Subscribe is used again.
NewSubOptionsKept == IF last.op = "Subscribe" THEN last.o ELSE [Queue |-> "", Handler |-> NIL]

NewSubOptions == [Queue |-> "", Handler |-> NIL]      \* sopts := &SubOptions{}

Queue(name) == [kind |-> "Queue", name |-> name, mcb |-> NIL, err |-> NIL]
Handler(mcb) == [kind |-> "Handler", name |-> "", mcb |-> mcb, err |-> NIL]
\* A caller-written SubOption whose closure returns the error err.
FailingSubOption(err) == [kind |-> "Fail", name |-> "", mcb |-> NIL, err |-> err]

\* Mutant: Queue sets the name only when none is set yet (the first option wins).
QueueClosureKeepFirst(o, name) ==
  [o |-> IF o.Queue = "" THEN [o EXCEPT !.Queue = name] ELSE o, err |-> NIL]

\* The closure returned by Queue: o.Queue = name; return nil
QueueClosure(o, name) == [o |-> [o EXCEPT !.Queue = name], err |-> NIL]
\* The closure returned by Handler: o.Handler = mcb; return nil
HandlerClosure(o, mcb) == [o |-> [o EXCEPT !.Handler = mcb], err |-> NIL]

\* opt(sopts): the call of a SubOption on the options structure.
CallSubOption(opt, o) ==
  CASE opt.kind = "Queue"   -> QueueClosure(o, opt.name)
    [] opt.kind = "Handler" -> HandlerClosure(o, opt.mcb)
    [] opt.kind = "Fail"    -> [o |-> o, err |-> opt.err]

(***************************************************************************)
(* ReqOptions and its builders (main.go 53-72).                             *)
(***************************************************************************)
NewReqOptions == [Timeout |-> 0, Context |-> NIL]       \* ropts := &ReqOptions{}

Timeout(timeout) == [kind |-> "Timeout", timeout |-> timeout, ctx |-> NIL, err |-> NIL]
Ctx(ctx) == [kind |-> "Ctx", timeout |-> 0, ctx |-> ctx, err |-> NIL]
FailingReqOption(err) == [kind |-> "Fail", timeout |-> 0, ctx |-> NIL, err |-> err]

TimeoutClosure(o, timeout) == [o |-> [o EXCEPT !.Timeout = timeout], err |-> NIL]
CtxClosure(o, ctx) == [o |-> [o EXCEPT !.Context = ctx], err |-> NIL]

CallReqOption(opt, o) ==
  CASE opt.kind = "Timeout" -> TimeoutClosure(o, opt.timeout)
    [] opt.kind = "Ctx"     -> CtxClosure(o, opt.ctx)
    [] opt.kind = "Fail"    -> [o |-> o, err |-> opt.err]

(***************************************************************************)
(* The option loops of Subscribe and Request:                               *)
(*     for _, opt := range opts {                                           *)
(*         if err := opt(sopts); err != nil { return nil, err } }           *)
(* i is the index of the next option; `invoked` counts the closures called. *)
(***************************************************************************)
\* Mutant: the error of an option is dropped and the loop goes on.
RECURSIVE SubscribeLoopIgnoringErr(_, _, _)
SubscribeLoopIgnoringErr(opts, i, o) ==
  IF i > Len(opts)
    THEN [o |-> o, err |-> NIL, invoked |-> Len(opts)]
    ELSE SubscribeLoopIgnoringErr(opts, i + 1, CallSubOption(opts[i], o).o)

RECURSIVE SubscribeLoop(_, _, _)
SubscribeLoop(opts, i, o) ==
  IF i > Len(opts)
    THEN [o |-> o, err |-> NIL, invoked |-> Len(opts)]
    ELSE LET r == CallSubOption(opts[i], o)
         IN  IF r.err # NIL
               THEN [o |-> r.o, err |-> r.err, invoked |-> i]
               ELSE SubscribeLoop(opts, i + 1, r.o)

RECURSIVE RequestLoop(_, _, _)
RequestLoop(opts, i, o) ==
  IF i > Len(opts)
    THEN [o |-> o, err |-> NIL, invoked |-> Len(opts)]
    ELSE LET r == CallReqOption(opts[i], o)
         IN  IF r.err # NIL
               THEN [o |-> r.o, err |-> r.err, invoked |-> i]
               ELSE RequestLoop(opts, i + 1, r.o)

(***************************************************************************)
(* The values passed to Publish as msg interface{}: a []byte, a string, an  *)
(* int, or a pointer to the struct person{Name, Address string; Age int}    *)
(* of main.  Every value carries all four fields: t is the dynamic type.    *)
(***************************************************************************)
BytesVal(b) == [t |-> "[]byte", s |-> b, a |-> <<>>, n |-> 0]
StringVal(s) == [t |-> "string", s |-> s, a |-> <<>>, n |-> 0]
IntVal(n) == [t |-> "int", s |-> <<>>, a |-> <<>>, n |-> n]
PersonPtr(name, address, age) == [t |-> "*person", s |-> name, a |-> address, n |-> age]

(***************************************************************************)
(* fmt.Sprintf("%+v", v) as bytes (main.go 112): an int in decimal, a       *)
(* string as it is, a []byte as "[d d d]", a *person as                     *)
(* "&{Name:<Name> Address:<Address> Age:<Age>}".                            *)
(***************************************************************************)
RECURSIVE Digits(_)
Digits(n) == IF n < 10 THEN <<48 + n>> ELSE Digits(n \div 10) \o <<48 + (n % 10)>>

Itoa(n) == IF n < 0 THEN <<45>> \o Digits(0 - n) ELSE Digits(n)

RECURSIVE JoinDecimal(_, _)
JoinDecimal(b, i) ==
  IF i > Len(b) THEN <<>>
  ELSE (IF i > 1 THEN <<32>> ELSE <<>>) \o Itoa(b[i]) \o JoinDecimal(b, i + 1)

Sprintf(v) ==
  CASE v.t = "int"     -> Itoa(v.n)
    [] v.t = "string"  -> v.s
    [] v.t = "[]byte"  -> <<91>> \o JoinDecimal(v.s, 1) \o <<93>>
    [] v.t = "*person" -> <<38, 123, 78, 97, 109, 101, 58>> \o v.s
                          \o <<32, 65, 100, 100, 114, 101, 115, 115, 58>> \o v.a
                          \o <<32, 65, 103, 101, 58>> \o Itoa(v.n) \o <<125>>

(***************************************************************************)
(* The type switch of Publish (main.go 103-113).                            *)
(***************************************************************************)
\* Mutant: the []byte case is missing, so raw bytes are formatted too.
ToDataNoBytesCase(msg) == IF msg.t = "string" THEN msg.s ELSE Sprintf(msg)

ToData(msg) ==
  CASE msg.t = "[]byte" -> msg.s             \* data = v
    [] msg.t = "string" -> msg.s             \* data = []byte(v)
    [] OTHER            -> Sprintf(msg)      \* data = []byte(fmt.Sprintf("%+v", v))

(***************************************************************************)
(* Base64 (main.go 197-201): base64.StdEncoding, the alphabet A-Z a-z 0-9   *)
(* + / with '=' padding.  Three bytes give four characters.                 *)
(***************************************************************************)
Base64Char(i) ==
  IF i < 26 THEN 65 + i
  ELSE IF i < 52 THEN 71 + i
  ELSE IF i < 62 THEN i - 4
  ELSE IF i = 62 THEN 43 ELSE 47

\* The characters of the group of input bytes that starts at in[i].
Base64Group(in, i) ==
  LET b1 == in[i]
      b2 == IF i + 1 <= Len(in) THEN in[i + 1] ELSE 0
      b3 == IF i + 2 <= Len(in) THEN in[i + 2] ELSE 0
  IN  << Base64Char(b1 \div 4),
         Base64Char((b1 % 4) * 16 + b2 \div 16),
         IF i + 1 <= Len(in) THEN Base64Char((b2 % 16) * 4 + b3 \div 64) ELSE 61,
         IF i + 2 <= Len(in) THEN Base64Char(b3 % 64) ELSE 61 >>

RECURSIVE Base64From(_, _)
Base64From(in, i) ==
  IF i > Len(in) THEN <<>> ELSE Base64Group(in, i) \o Base64From(in, i + 3)

\* Mutant: the padding is left out (base64.RawStdEncoding).
Base64Unpadded(in) == SelectSeq(Base64From(in, 1), LAMBDA c : c # 61)

Base64(in) == Base64From(in, 1)

(***************************************************************************)
(* Gzip (main.go 189-195): gzip.NewWriter at the default level, one Write,  *)
(* Close.  The stream is the 10-byte header (no flags, no time, OS          *)
(* unknown), the DEFLATE data, CRC-32 and the length, both little-endian.   *)
(* The DEFLATE data of compress/flate for an input with no repeated run of  *)
(* four bytes: one block with the fixed Huffman code holding the literals   *)
(* (not the last block), then an empty stored block that is the last; for   *)
(* an empty input the stored block alone.  Bits fill each byte from its     *)
(* least significant bit; Huffman codes go most significant bit first.      *)
(***************************************************************************)
\* The bits of a byte string, each byte from its least significant bit.
BitsOf(bytes) ==
  [k \in 1..(8 * Len(bytes)) |-> (bytes[((k - 1) \div 8) + 1] \div (2 ^ ((k - 1) % 8))) % 2]
    \o <<>>

BitAt(bits, k) == IF k <= Len(bits) THEN bits[k] ELSE 0

\* The bytes of a bit string, the last byte filled up with zero bits.
PackBits(bits) ==
  [k \in 1..((Len(bits) + 7) \div 8) |->
     BitAt(bits, 8 * k - 7) + 2 * BitAt(bits, 8 * k - 6) + 4 * BitAt(bits, 8 * k - 5)
     + 8 * BitAt(bits, 8 * k - 4) + 16 * BitAt(bits, 8 * k - 3) + 32 * BitAt(bits, 8 * k - 2)
     + 64 * BitAt(bits, 8 * k - 1) + 128 * BitAt(bits, 8 * k)] \o <<>>

\* The n low bits of x, the most significant first.
CodeBits(x, n) == [i \in 1..n |-> (x \div (2 ^ (n - i))) % 2] \o <<>>

\* The fixed Huffman code of a literal byte (RFC 1951, 3.2.6).
FixedLiteral(lit) == IF lit < 144 THEN CodeBits(48 + lit, 8) ELSE CodeBits(256 + lit, 9)

RECURSIVE FixedLiterals(_, _)
FixedLiterals(in, i) ==
  IF i > Len(in) THEN <<>> ELSE FixedLiteral(in[i]) \o FixedLiterals(in, i + 1)

Deflate(in) ==
  LET block == IF Len(in) = 0 THEN <<>>
               ELSE <<0, 1, 0>> \o FixedLiterals(in, 1) \o <<0, 0, 0, 0, 0, 0, 0>>
  IN  PackBits(block \o <<1, 0, 0>>) \o <<0, 0, 255, 255>>

\* CRC-32 (IEEE), on 32 bits held least significant first.
Crc32Poly ==
  <<0, 0, 0, 0, 0, 1, 0, 0, 1, 1, 0, 0, 0, 0, 0, 1,
    0, 0, 0, 1, 1, 1, 0, 1, 1, 0, 1, 1, 0, 1, 1, 1>>

XorBits(a, b) == [i \in 1..32 |-> (a[i] + b[i]) % 2] \o <<>>

Crc32Shift(c) ==
  IF c[1] = 1 THEN XorBits(Tail(c) \o <<0>>, Crc32Poly) ELSE Tail(c) \o <<0>>

RECURSIVE Crc32Rounds(_, _)
Crc32Rounds(c, n) == IF n = 0 \/ Len(c) # 32 THEN c ELSE Crc32Rounds(Crc32Shift(c), n - 1)

Crc32Byte(c, b) ==
  Crc32Rounds(XorBits(c, [i \in 1..32 |-> IF i <= 8 THEN (b \div (2 ^ (i - 1))) % 2 ELSE 0] \o <<>>), 8)

RECURSIVE Crc32Update(_, _, _)
Crc32Update(c, in, i) ==
  IF i > Len(in) \/ Len(c) # 32 THEN c ELSE Crc32Update(Crc32Byte(c, in[i]), in, i + 1)

\* The four bytes of the checksum, little-endian.
Crc32(in) ==
  LET c == Crc32Update([j \in 1..32 |-> 1] \o <<>>, in, 1)
  IN  PackBits([i \in 1..32 |-> 1 - c[i]] \o <<>>)

Le32(n) == <<n % 256, (n \div 256) % 256, (n \div 65536) % 256, (n \div 16777216) % 256>>

GzipHeader == <<31, 139, 8, 0, 0, 0, 0, 0, 0, 255>>

Gzip(in) == GzipHeader \o Deflate(in) \o Crc32(in) \o Le32(Len(in))

(***************************************************************************)
(* JSON (main.go 184-187): b, _ := json.Marshal(v); return b.               *)
(* json.Marshal writes an int in decimal, a string in double quotes with    *)
(* its escapes, a []byte as a base64 string, a *person as the object of     *)
(* its three fields in the order of the struct.  It returns an error and    *)
(* no bytes for a value JSON cannot hold, here a channel; JSON drops the    *)
(* error and returns the nil slice.                                         *)
(***************************************************************************)
ChanVal == [t |-> "chan", s |-> <<>>, a |-> <<>>, n |-> 0]

HexChar(d) == IF d < 10 THEN 48 + d ELSE 87 + d

IsCont(s, i) == i <= Len(s) /\ s[i] >= 128 /\ s[i] <= 191

\* The length in bytes of the UTF-8 encoding that starts at s[i]; 0 when
\* the bytes there are no valid encoding (utf8.DecodeRuneInString).
RuneSize(s, i) ==
  LET b == s[i]
  IN  IF b < 128 THEN 1
      ELSE IF b >= 194 /\ b <= 223 /\ IsCont(s, i + 1) THEN 2
      ELSE IF /\ b >= 224 /\ b <= 239 /\ IsCont(s, i + 1) /\ IsCont(s, i + 2)
              /\ (b = 224 => s[i + 1] >= 160)
              /\ (b = 237 => s[i + 1] <= 159) THEN 3
      ELSE IF /\ b >= 240 /\ b <= 244 /\ IsCont(s, i + 1) /\ IsCont(s, i + 2)
              /\ IsCont(s, i + 3)
              /\ (b = 240 => s[i + 1] >= 144)
              /\ (b = 244 => s[i + 1] <= 143) THEN 4
      ELSE 0

\* What json.Marshal writes for the character at s[i], and the bytes it stands for.
JSONEscape(s, i) ==
  LET b == s[i]
      size == RuneSize(s, i)
  IN  IF b = 34 THEN [out |-> <<92, 34>>, size |-> 1]
      ELSE IF b = 92 THEN [out |-> <<92, 92>>, size |-> 1]
      ELSE IF b = 10 THEN [out |-> <<92, 110>>, size |-> 1]
      ELSE IF b = 13 THEN [out |-> <<92, 114>>, size |-> 1]
      ELSE IF b = 9 THEN [out |-> <<92, 116>>, size |-> 1]
      ELSE IF b < 32 \/ b \in {60, 62, 38}
        THEN [out |-> <<92, 117, 48, 48, HexChar(b \div 16), HexChar(b % 16)>>, size |-> 1]
      ELSE IF b < 128 THEN [out |-> <<b>>, size |-> 1]
      ELSE IF size = 0 THEN [out |-> <<92, 117, 102, 102, 102, 100>>, size |-> 1]
      ELSE IF size = 3 /\ b = 226 /\ s[i + 1] = 128 /\ s[i + 2] \in {168, 169}
        THEN [out |-> <<92, 117, 50, 48, 50, HexChar(s[i + 2] - 160)>>, size |-> 3]
      ELSE [out |-> SubSeq(s, i, i + size - 1), size |-> size]

RECURSIVE JSONEscapeFrom(_, _)
JSONEscapeFrom(s, i) ==
  IF i > Len(s) THEN <<>>
  ELSE LET e == JSONEscape(s, i) IN e.out \o JSONEscapeFrom(s, i + e.size)

JSONString(s) == <<34>> \o JSONEscapeFrom(s, 1) \o <<34>>

Marshal(v) ==
  CASE v.t = "int"     -> [b |-> Itoa(v.n), err |-> NIL]
    [] v.t = "string"  -> [b |-> JSONString(v.s), err |-> NIL]
    [] v.t = "[]byte"  -> [b |-> <<34>> \o Base64(v.s) \o <<34>>, err |-> NIL]
    [] v.t = "*person" ->
         [b |-> <<123, 34, 78, 97, 109, 101, 34, 58>> \o JSONString(v.s)
                \o <<44, 34, 65, 100, 100, 114, 101, 115, 115, 34, 58>> \o JSONString(v.a)
                \o <<44, 34, 65, 103, 101, 34, 58>> \o Itoa(v.n) \o <<125>>,
          err |-> NIL]
    [] OTHER           -> [b |-> <<>>, err |-> "json: unsupported type"]

JSON(v) == Marshal(v).b

(***************************************************************************)
(* The decoders the helpers are read back with: base64.StdEncoding.Decode,  *)
(* gzip.NewReader with io.ReadAll, and json.Unmarshal into a value of the   *)
(* type that was marshalled.  They are the standard library's, modelled     *)
(* for the streams the helpers write; each gives ok and the decoded value.  *)
(***************************************************************************)
BadBytes == [ok |-> FALSE, out |-> <<>>]

Base64Index(c) ==
  IF c >= 65 /\ c <= 90 THEN c - 65
  ELSE IF c >= 97 /\ c <= 122 THEN c - 71
  ELSE IF c >= 48 /\ c <= 57 THEN c + 4
  ELSE IF c = 43 THEN 62
  ELSE IF c = 47 THEN 63 ELSE 0 - 1

RECURSIVE Base64DecodeFrom(_, _)
Base64DecodeFrom(in, i) ==
  IF i > Len(in) THEN [ok |-> TRUE, out |-> <<>>]
  ELSE IF i + 3 > Len(in) THEN BadBytes
  ELSE LET c1 == Base64Index(in[i])
           c2 == Base64Index(in[i + 1])
           c3 == Base64Index(in[i + 2])
           c4 == Base64Index(in[i + 3])
           isLast == i + 3 = Len(in)
           b1 == c1 * 4 + c2 \div 16
           b2 == (c2 % 16) * 16 + c3 \div 4
           b3 == (c3 % 4) * 64 + c4
       IN  IF c1 < 0 \/ c2 < 0 THEN BadBytes
           ELSE IF in[i + 2] = 61
             THEN IF in[i + 3] = 61 /\ isLast THEN [ok |-> TRUE, out |-> <<b1>>] ELSE BadBytes
           ELSE IF c3 < 0 THEN BadBytes
           ELSE IF in[i + 3] = 61
             THEN IF isLast THEN [ok |-> TRUE, out |-> <<b1, b2>>] ELSE BadBytes
           ELSE IF c4 < 0 THEN BadBytes
           ELSE LET rest == Base64DecodeFrom(in, i + 4)
                IN  IF rest.ok THEN [ok |-> TRUE, out |-> <<b1, b2, b3>> \o rest.out]
                    ELSE BadBytes

Base64Decode(in) == Base64DecodeFrom(in, 1)

\* The value of the n bits from bits[pos], the first the least significant.
RECURSIVE ReadBits(_, _, _)
ReadBits(bits, pos, n) ==
  IF n = 0 THEN 0 ELSE BitAt(bits, pos) + 2 * ReadBits(bits, pos + 1, n - 1)

\* The value of the n bits from bits[pos], the first the most significant.
RECURSIVE ReadCode(_, _, _)
ReadCode(bits, pos, n) ==
  IF n = 0 THEN 0 ELSE BitAt(bits, pos) * (2 ^ (n - 1)) + ReadCode(bits, pos + 1, n - 1)

\* The symbol of the fixed Huffman code at bits[pos] and the bits it takes.
FixedSymbol(bits, pos) ==
  LET c7 == ReadCode(bits, pos, 7)
      c8 == ReadCode(bits, pos, 8)
      c9 == ReadCode(bits, pos, 9)
  IN  IF c7 <= 23 THEN [sym |-> 256 + c7, len |-> 7]
      ELSE IF c8 >= 48 /\ c8 <= 191 THEN [sym |-> c8 - 48, len |-> 8]
      ELSE IF c8 >= 192 /\ c8 <= 199 THEN [sym |-> 280 + c8 - 192, len |-> 8]
      ELSE [sym |-> 144 + c9 - 400, len |-> 9]

BadBlock == [ok |-> FALSE, out |-> <<>>, pos |-> 0]

\* The literals of a fixed-Huffman block up to its end-of-block symbol.  A
\* length symbol (a back reference) is never written by Deflate above.
RECURSIVE InflateFixed(_, _, _)
InflateFixed(bits, pos, out) ==
  LET s == FixedSymbol(bits, pos)
  IN  IF pos + s.len - 1 > Len(bits) THEN BadBlock
      ELSE IF s.sym = 256 THEN [ok |-> TRUE, out |-> out, pos |-> pos + s.len]
      ELSE IF s.sym > 256 THEN BadBlock
      ELSE InflateFixed(bits, pos + s.len, out \o <<s.sym>>)

\* A stored block: LEN, its complement, LEN bytes, from the next byte boundary.
InflateStored(bits, pos, out) ==
  LET p == ((pos + 6) \div 8) * 8 + 1
      len == ReadBits(bits, p, 16)
      nlen == ReadBits(bits, p + 16, 16)
  IN  IF p + 31 + 8 * len > Len(bits) \/ len + nlen # 65535 THEN BadBlock
      ELSE [ok |-> TRUE,
            out |-> out \o [k \in 1..len |-> ReadBits(bits, p + 32 + 8 * (k - 1), 8)],
            pos |-> p + 32 + 8 * len]

RECURSIVE Inflate(_, _, _)
Inflate(bits, pos, out) ==
  IF pos + 2 > Len(bits) THEN BadBlock
  ELSE LET final == bits[pos] = 1
           type == ReadBits(bits, pos + 1, 2)
           b == IF type = 0 THEN InflateStored(bits, pos + 3, out)
                ELSE IF type = 1 THEN InflateFixed(bits, pos + 3, out)
                ELSE BadBlock
       IN  IF ~b.ok \/ final THEN b ELSE Inflate(bits, b.pos, b.out)

Gunzip(data) ==
  IF Len(data) < 18 \/ SubSeq(data, 1, 4) # <<31, 139, 8, 0>> THEN BadBytes
  ELSE LET body == SubSeq(data, 11, Len(data) - 8)
           r == Inflate(BitsOf(body), 1, <<>>)
       IN  IF /\ r.ok
              /\ (r.pos + 6) \div 8 = Len(body)
              /\ SubSeq(data, Len(data) - 7, Len(data) - 4) = Crc32(r.out)
              /\ SubSeq(data, Len(data) - 3, Len(data)) = Le32(Len(r.out))
             THEN [ok |-> TRUE, out |-> r.out]
             ELSE BadBytes

HexValue(c) ==
  IF c >= 48 /\ c <= 57 THEN c - 48
  ELSE IF c >= 97 /\ c <= 102 THEN c - 87
  ELSE IF c >= 65 /\ c <= 70 THEN c - 55 ELSE 0 - 1

\* The UTF-8 bytes of a code point below 65536; U+FFFD for a surrogate.
UTF8(cp) ==
  IF cp < 128 THEN <<cp>>
  ELSE IF cp < 2048 THEN <<192 + (cp \div 64), 128 + (cp % 64)>>
  ELSE IF cp >= 55296 /\ cp <= 57343 THEN <<239, 191, 189>>
  ELSE <<224 + (cp \div 4096), 128 + ((cp \div 64) % 64), 128 + (cp % 64)>>

BadString == [ok |-> FALSE, s |-> <<>>, next |-> 0]

\* The characters of a JSON string from data[i] up to its closing quote.
RECURSIVE ParseChars(_, _, _)
ParseChars(data, i, acc) ==
  IF i > Len(data) THEN BadString
  ELSE LET b == data[i]
       IN  IF b = 34 THEN [ok |-> TRUE, s |-> acc, next |-> i + 1]
           ELSE IF b < 32 THEN BadString
           ELSE IF b = 92
             THEN IF i + 1 > Len(data) THEN BadString
                  ELSE LET e == data[i + 1]
                       IN  IF e \in {34, 92, 47} THEN ParseChars(data, i + 2, acc \o <<e>>)
                           ELSE IF e = 98 THEN ParseChars(data, i + 2, acc \o <<8>>)
                           ELSE IF e = 102 THEN ParseChars(data, i + 2, acc \o <<12>>)
                           ELSE IF e = 110 THEN ParseChars(data, i + 2, acc \o <<10>>)
                           ELSE IF e = 114 THEN ParseChars(data, i + 2, acc \o <<13>>)
                           ELSE IF e = 116 THEN ParseChars(data, i + 2, acc \o <<9>>)
                           ELSE IF /\ e = 117
                                   /\ i + 5 <= Len(data)
                                   /\ \A k \in 2..5 : HexValue(data[i + k]) >= 0
                             THEN ParseChars(data, i + 6,
                                    acc \o UTF8(HexValue(data[i + 2]) * 4096
                                                + HexValue(data[i + 3]) * 256
                                                + HexValue(data[i + 4]) * 16
                                                + HexValue(data[i + 5])))
                           ELSE BadString
           ELSE IF RuneSize(data, i) = 0 THEN ParseChars(data, i + 1, acc \o <<239, 191, 189>>)
           ELSE ParseChars(data, i + RuneSize(data, i),
                           acc \o SubSeq(data, i, i + RuneSize(data, i) - 1))

ParseString(data, i) ==
  IF i <= Len(data) /\ data[i] = 34 THEN ParseChars(data, i + 1, <<>>) ELSE BadString

BadInt == [ok |-> FALSE, n |-> 0, next |-> 0]

IsDigit(data, i) == i <= Len(data) /\ data[i] >= 48 /\ data[i] <= 57

RECURSIVE ParseDigits(_, _, _)
ParseDigits(data, i, acc) ==
  IF IsDigit(data, i) THEN ParseDigits(data, i + 1, 10 * acc + (data[i] - 48))
  ELSE [ok |-> TRUE, n |-> acc, next |-> i]

\* A JSON number that is an integer: -?(0|[1-9][0-9]*).
ParseInt(data, i) ==
  LET neg == i <= Len(data) /\ data[i] = 45
      j == IF neg THEN i + 1 ELSE i
      r == ParseDigits(data, j, 0)
  IN  IF ~IsDigit(data, j) \/ (data[j] = 48 /\ IsDigit(data, j + 1)) THEN BadInt
      ELSE [ok |-> TRUE, n |-> IF neg THEN 0 - r.n ELSE r.n, next |-> r.next]

HasAt(data, i, lit) == i + Len(lit) - 1 <= Len(data) /\ SubSeq(data, i, i + Len(lit) - 1) = lit

BadValue == [ok |-> FALSE, v |-> ChanVal]

UnmarshalPerson(data) ==
  LET k1 == <<123, 34, 78, 97, 109, 101, 34, 58>>
      k2 == <<44, 34, 65, 100, 100, 114, 101, 115, 115, 34, 58>>
      k3 == <<44, 34, 65, 103, 101, 34, 58>>
      name == ParseString(data, Len(k1) + 1)
      addr == ParseString(data, name.next + Len(k2))
      age == ParseInt(data, addr.next + Len(k3))
  IN  IF /\ HasAt(data, 1, k1)
         /\ name.ok
         /\ HasAt(data, name.next, k2)
         /\ addr.ok
         /\ HasAt(data, addr.next, k3)
         /\ age.ok
         /\ HasAt(data, age.next, <<125>>)
         /\ age.next = Len(data)
        THEN [ok |-> TRUE, v |-> PersonPtr(name.s, addr.s, age.n)]
        ELSE BadValue

\* json.Unmarshal(data, &x) with x of the type t.
Unmarshal(data, t) ==
  CASE t = "int" ->
         LET r == ParseInt(data, 1)
         IN  IF r.ok /\ r.next = Len(data) + 1 THEN [ok |-> TRUE, v |-> IntVal(r.n)]
             ELSE BadValue
    [] t = "string" ->
         LET r == ParseString(data, 1)
         IN  IF r.ok /\ r.next = Len(data) + 1 THEN [ok |-> TRUE, v |-> StringVal(r.s)]
             ELSE BadValue
    [] t = "[]byte" ->
         LET r == ParseString(data, 1)
             b == Base64Decode(r.s)
         IN  IF r.ok /\ r.next = Len(data) + 1 /\ b.ok THEN [ok |-> TRUE, v |-> BytesVal(b.out)]
             ELSE BadValue
    [] t = "*person" -> UnmarshalPerson(data)
    [] OTHER -> BadValue

(***************************************************************************)
(* The external client (github.com/nats-io/nats.go), as the wrapper uses    *)
(* it.  ext records what the client has been asked to do.  r is the         *)
(* receiver of the call, the value of c.nc.  A method of *nats.Conn called  *)
(* on a nil receiver reaches no client: Publish returns                     *)
(* ErrInvalidConnection and Close does nothing.  out is what a live client  *)
(* answers: nil, or an error of its own.                                    *)
(***************************************************************************)
NewExt ==
  [open |-> TRUE, publishes |-> 0, delivered |-> 0, closes |-> 0, subscribes |-> 0,
   requests |-> 0, lastPublish |-> <<>>, lastResult |-> NIL]

NatsPublish(e, r, subject, data, out) ==
  LET res == IF r = NIL THEN "ErrInvalidConnection"
             ELSE IF ~e.open THEN "ErrConnectionClosed"
             ELSE out
  IN  [e EXCEPT !.publishes = @ + 1,
                !.delivered = IF res = NIL THEN @ + 1 ELSE @,
                !.lastPublish = <<r, subject, data>>,
                !.lastResult = res]

NatsClose(e, r) ==
  IF r = NIL THEN e ELSE [e EXCEPT !.closes = @ + 1, !.open = FALSE]

(***************************************************************************)
(* The methods of conn (main.go 74-122).  Each takes the wrapper's field    *)
(* c.nc and the external client, and gives what the call returns and what   *)
(* it leaves behind.  printed is what the call wrote with fmt.Printf; o is  *)
(* the options structure of the call as the call left it.                   *)
(***************************************************************************)
Handle(cnc, e, subject, handler) ==
  [nc |-> cnc, ext |-> e, res |-> NIL, err |-> NIL, printed |-> <<>>,
   o |-> NIL, invoked |-> 0]

Request(cnc, e, subject, msg, opts) ==
  LET r == RequestLoop(opts, 1, NewReqOptions)
  IN  IF r.err # NIL
        THEN [nc |-> cnc, ext |-> e, res |-> NIL, err |-> r.err, printed |-> <<>>,
              o |-> r.o, invoked |-> r.invoked]
        ELSE [nc |-> cnc, ext |-> e, res |-> NIL, err |-> NIL, printed |-> <<r.o>>,
              o |-> r.o, invoked |-> r.invoked]

Subscribe(cnc, e, subject, opts) ==
  LET r == SubscribeLoop(opts, 1, NewSubOptions)
  IN  IF r.err # NIL
        THEN [nc |-> cnc, ext |-> e, res |-> NIL, err |-> r.err, printed |-> <<>>,
              o |-> r.o, invoked |-> r.invoked]
        ELSE [nc |-> cnc, ext |-> e, res |-> NIL, err |-> NIL, printed |-> <<r.o>>,
              o |-> r.o, invoked |-> r.invoked]

\* Mutant: a failed publish is tried once more.
PublishRetrying(cnc, e, subject, msg, out) ==
  LET data == ToData(msg)
      e1 == NatsPublish(e, cnc, subject, data, out)
      e2 == IF e1.lastResult # NIL THEN NatsPublish(e1, cnc, subject, data, out) ELSE e1
  IN  [nc |-> cnc, ext |-> e2, res |-> NIL, err |-> e2.lastResult, printed |-> <<>>,
       o |-> NIL, invoked |-> 0]

\* Mutant: Publish on a wrapper that holds no client does nothing and returns nil.
PublishNilGuard(cnc, e, subject, msg, out) ==
  LET e2 == IF cnc = NIL THEN e ELSE NatsPublish(e, cnc, subject, ToData(msg), out)
  IN  [nc |-> cnc, ext |-> e2, res |-> NIL, err |-> IF cnc = NIL THEN NIL ELSE e2.lastResult,
       printed |-> <<>>, o |-> NIL, invoked |-> 0]

Publish(cnc, e, subject, msg, out) ==
  LET data == ToData(msg)
      e2 == NatsPublish(e, cnc, subject, data, out)      \* return c.nc.Publish(subject, data)
  IN  [nc |-> cnc, ext |-> e2, res |-> NIL, err |-> e2.lastResult, printed |-> <<>>,
       o |-> NIL, invoked |-> 0]

\* Mutant: Close drops the client without closing it.
CloseWithoutClientClose(cnc, e) ==
  [nc |-> NIL, ext |-> e, res |-> NIL, err |-> NIL, printed |-> <<>>, o |-> NIL,
   invoked |-> 0]

Close(cnc, e) ==
  IF cnc # NIL
    THEN [nc |-> NIL, ext |-> NatsClose(e, cnc), res |-> NIL, err |-> NIL,
          printed |-> <<>>, o |-> NIL, invoked |-> 0]
    ELSE [nc |-> cnc, ext |-> e, res |-> NIL, err |-> NIL,
          printed |-> <<>>, o |-> NIL, invoked |-> 0]

(***************************************************************************)
(* The arguments the callers of the model pass.                             *)
(***************************************************************************)
Subjects == {"natsv2.foo", "foo"}
ExtOutcomes == {NIL, "ErrExt"}         \* what a live client's Publish returns
HelloWorld == <<72, 101, 108, 108, 111, 32, 87, 111, 114, 108, 100, 33>>
Derek == <<100, 101, 114, 101, 107>>
LosAngeles == <<76, 111, 115, 32, 65, 110, 103, 101, 108, 101, 115, 44, 32, 67, 65>>
Me == PersonPtr(Derek, LosAngeles, 22)
PublishMsgs ==
  {StringVal(HelloWorld), IntVal(22), IntVal(0 - 7), Me, BytesVal(<<>>), BytesVal(<<0, 255>>)}
RequestMsg == StringVal(<<50, 43, 50>>)               \* "2+2"
NoMsg == BytesVal(<<>>)

SubOptionValues ==
  {Queue("bar"), Queue("baz"), Handler("h1"), FailingSubOption("e1")}
ReqOptionValues ==
  {Timeout(2), Ctx("ctx1"), FailingReqOption("e1"), FailingReqOption("e2")}
SubOptionLists == SeqsUpTo(SubOptionValues, MaxOpts)
ReqOptionLists == SeqsUpTo(ReqOptionValues, MaxOpts)
\* The option lists of main (main.go 164-174), and one whose option fails.
MainSubOptionLists == {<<>>, <<Queue("bar")>>, <<Handler("h1")>>, <<FailingSubOption("e1")>>}
MainReqOptionLists == {<<>>, <<Timeout(2)>>, <<Ctx("ctx1")>>, <<FailingReqOption("e1")>>}

(***************************************************************************)
(* The record of a call: its arguments, what it returned (r), and in pre    *)
(* the wrapper's field and the external client's counters as they were      *)
(* when the call was made.                                                  *)
(***************************************************************************)
Snapshot(cnc, e) ==
  [nc |-> cnc, open |-> e.open, publishes |-> e.publishes, delivered |-> e.delivered,
   closes |-> e.closes, subscribes |-> e.subscribes, requests |-> e.requests]

NoCall ==
  [op |-> "none", subject |-> "", msg |-> NoMsg, opts |-> <<>>, res |-> NIL, err |-> NIL,
   printed |-> <<>>, o |-> NIL, invoked |-> 0, pre |-> Snapshot(NIL, NewExt)]

CallRecord(op, subject, msg, opts, r) ==
  [op |-> op, subject |-> subject, msg |-> msg, opts |-> opts, res |-> r.res,
   err |-> r.err, printed |-> r.printed, o |-> r.o, invoked |-> r.invoked,
   pre |-> Snapshot(nc, ext)]

Idle == [pc |-> "idle"]

(***************************************************************************)
(* One caller using a connection that Connect has returned: each call of a  *)
(* method is one step.                                                      *)
(***************************************************************************)
Init ==
  /\ nc = Client                        \* &conn{nc: nc}
  /\ ext = NewExt
  /\ last = NoCall
  /\ first = NoCall
  /\ gs = Idle
  /\ proc = Idle
  /\ enc = Idle

Returned(rec, r, remember) ==
  /\ nc' = r.nc
  /\ ext' = r.ext
  /\ last' = rec
  /\ first' = IF remember /\ first.op = "none" THEN rec ELSE first
  /\ UNCHANGED <<gs, proc, enc>>

DoPublish(subject, msg, out) ==
  /\ ext.publishes < MaxPublishes
  /\ LET r == Publish(nc, ext, subject, msg, out)
     IN  Returned(CallRecord("Publish", subject, msg, <<>>, r), r, FALSE)

DoSubscribe(subject, opts) ==
  LET r == Subscribe(nc, ext, subject, opts)
  IN  Returned(CallRecord("Subscribe", subject, NoMsg, opts, r), r, TRUE)

DoRequest(subject, msg, opts) ==
  LET r == Request(nc, ext, subject, msg, opts)
  IN  Returned(CallRecord("Request", subject, msg, opts, r), r, TRUE)

DoHandle(subject) ==
  LET r == Handle(nc, ext, subject, "handler")
  IN  Returned(CallRecord("Handle", subject, NoMsg, <<>>, r), r, TRUE)

DoClose ==
  LET r == Close(nc, ext)
  IN  Returned(CallRecord("Close", "", NoMsg, <<>>, r), r, FALSE)

Next ==
  \/ \E subject \in Subjects, msg \in PublishMsgs, out \in ExtOutcomes :
       DoPublish(subject, msg, out)
  \/ \E opts \in MainSubOptionLists : DoSubscribe("foo", opts)
  \/ \E opts \in MainReqOptionLists : DoRequest("service", RequestMsg, opts)
  \/ DoHandle("foo")
  \/ DoClose

Spec == Init /\ [][Next]_vars

(***************************************************************************)
(* The option lists: Subscribe and Request called with every list of at     *)
(* most MaxOpts options.                                                    *)
(***************************************************************************)
NextOpts ==
  \/ \E opts \in SubOptionLists : DoSubscribe("foo", opts)
  \/ \E opts \in ReqOptionLists : DoRequest("service", RequestMsg, opts)

SpecOpts == Init /\ [][NextOpts]_vars

(***************************************************************************)
(* What the claims read from a call record.                                 *)
(***************************************************************************)
IsOptionCall(c) == c.op \in {"Subscribe", "Request"}
Failing(opts) == {i \in 1..Len(opts) : opts[i].err # NIL}
FirstFailing(opts) == CHOOSE i \in Failing(opts) : \A j \in Failing(opts) : i <= j
Targeting(opts, kind) == {i \in 1..Len(opts) : opts[i].kind = kind}
LastTargeting(opts, kind) ==
  CHOOSE i \in Targeting(opts, kind) : \A j \in Targeting(opts, kind) : j <= i
\* The external client received no call and the wrapper's field did not change
\* between the moment the last call was made and now.
NothingReachedClient == Snapshot(nc, ext) = last.pre

(***************************************************************************)
(* C1.  Subscribe and Request with an option that returns an error: the     *)
(* call returns nil and the error of the first failing option, it invokes   *)
(* no option after that one, prints nothing, makes no call on the external  *)
(* client and leaves the connection as it was.                              *)
(***************************************************************************)
C1_FirstErrorReturned ==
  (IsOptionCall(last) /\ Failing(last.opts) # {}) =>
    /\ last.res = NIL
    /\ last.err = last.opts[FirstFailing(last.opts)].err
    /\ last.invoked = FirstFailing(last.opts)
    /\ last.printed = <<>>
    /\ NothingReachedClient

\* A Request whose two options both fail: the error of the first is returned
\* and the second is never invoked.
C1_Witness ==
  /\ last.op = "Request"
  /\ last.opts = <<FailingReqOption("e1"), FailingReqOption("e2")>>
  /\ last.err = "e1"
  /\ last.invoked = 1

C7_OptionsFreshPerCall ==
  /\ (last.op = "Subscribe" /\ last.opts = <<>>) => last.o = [Queue |-> "", Handler |-> NIL]
  /\ (last.op = "Request" /\ last.opts = <<>>) => last.o = [Timeout |-> 0, Context |-> NIL]
  /\ (IsOptionCall(last) /\ first.op = last.op /\ first.opts = last.opts) =>
       /\ last.o = first.o
       /\ last.printed = first.printed
       /\ last.err = first.err
       /\ last.res = first.res

\* The first call set a queue name and then failed midway; a later Subscribe
\* without options printed the zero structure.
C7_Witness ==
  /\ first.op = "Subscribe"
  /\ first.err # NIL
  /\ first.o.Queue = "bar"
  /\ last.op = "Subscribe"
  /\ last.opts = <<>>
  /\ last.printed = << [Queue |-> "", Handler |-> NIL] >>

(***************************************************************************)
(* C3.  Publish on an open connection makes exactly one call of the         *)
(* external client's publish, on the client the wrapper holds, with the     *)
(* subject it was given and a payload that depends on msg only: the bytes   *)
(* themselves for a []byte, the bytes of a string, the %+v text of anything *)
(* else.  Nothing else is called and the wrapper's field stays.             *)
(***************************************************************************)
C3_PublishOneCallCoerced ==
  (last.op = "Publish" /\ last.pre.nc # NIL /\ last.pre.open) =>
    /\ ext.publishes = last.pre.publishes + 1
    /\ ext.lastPublish[1] = last.pre.nc
    /\ ext.lastPublish[2] = last.subject
    /\ ext.lastPublish[3] = IF last.msg.t \in {"[]byte", "string"} THEN last.msg.s
                            ELSE Sprintf(last.msg)
    /\ (last.msg = IntVal(22) => ext.lastPublish[3] = <<50, 50>>)
    /\ (last.msg = IntVal(0 - 7) => ext.lastPublish[3] = <<45, 55>>)
    /\ Snapshot(nc, ext) =
         [last.pre EXCEPT !.publishes = ext.publishes, !.delivered = ext.delivered]
    /\ last.printed = <<>>

\* Raw bytes that are no text were published as they are.
C3_Witness ==
  /\ last.op = "Publish"
  /\ last.pre.nc # NIL
  /\ last.msg = BytesVal(<<0, 255>>)
  /\ ext.lastPublish = <<Client, "natsv2.foo", <<0, 255>>>>

(***************************************************************************)
(* C4.  Publish returns what the external client's publish returned, nil    *)
(* or its error, after one attempt, and leaves the wrapper's field as it    *)
(* was.                                                                     *)
(***************************************************************************)
C4_PublishForwardsResult ==
  last.op = "Publish" =>
    /\ last.err = ext.lastResult
    /\ ext.publishes = last.pre.publishes + 1
    /\ (ext.delivered = last.pre.delivered + 1) <=> (last.err = NIL)
    /\ nc = last.pre.nc

\* The client refused a publish on an open connection.
C4_Witness ==
  /\ last.op = "Publish"
  /\ last.pre.nc # NIL
  /\ last.err = "ErrExt"
  /\ ext.publishes = last.pre.publishes + 1

(***************************************************************************)
(* C6, as the specification states it.  Every method passes through: a      *)
(* Subscribe whose options succeed calls the client's subscribe, a Request  *)
(* the client's request, Publish its publish, Close its close, and each      *)
(* returns the client's result.                                             *)
(***************************************************************************)
C6_EveryMethodPassesThrough ==
  /\ (last.op = "Publish") =>
       (ext.publishes = last.pre.publishes + 1 /\ last.err = ext.lastResult)
  /\ (last.op = "Close" /\ last.pre.nc # NIL) => ext.closes = last.pre.closes + 1
  /\ (last.op = "Subscribe" /\ Failing(last.opts) = {}) =>
       ext.subscribes = last.pre.subscribes + 1
  /\ (last.op = "Request" /\ Failing(last.opts) = {}) =>
       ext.requests = last.pre.requests + 1

(***************************************************************************)
(* C6, amended.  Only Publish and Close pass through: Publish makes one     *)
(* call of the client's publish and returns its result; Close calls the     *)
(* client's close when the wrapper holds a client, and drops the client.    *)
(* Subscribe and Request whose options succeed, and Handle, make no call    *)
(* on the client and return nil and no error; Subscribe and Request print   *)
(* the parsed options.                                                      *)
(***************************************************************************)
C6_OnlyPublishAndClosePassThrough ==
  /\ (last.op = "Publish") =>
       (ext.publishes = last.pre.publishes + 1 /\ last.err = ext.lastResult)
  /\ (last.op = "Close" /\ last.pre.nc # NIL) =>
       (ext.closes = last.pre.closes + 1 /\ ~ext.open /\ nc = NIL)
  /\ (last.op = "Close" /\ last.pre.nc = NIL) => NothingReachedClient
  /\ (IsOptionCall(last) /\ Failing(last.opts) = {}) =>
       /\ NothingReachedClient
       /\ last.res = NIL
       /\ last.err = NIL
       /\ Len(last.printed) = 1
  /\ (last.op = "Handle") =>
       (NothingReachedClient /\ last.res = NIL /\ last.err = NIL /\ last.printed = <<>>)

\* A Subscribe with a queue name returned nil, nil and the client saw nothing.
C6_Witness ==
  /\ last.op = "Subscribe"
  /\ last.opts = <<Queue("bar")>>
  /\ last.err = NIL
  /\ last.pre.nc # NIL
  /\ ext.subscribes = 0

(***************************************************************************)
(* C10.  After Close, a Publish hands no payload to a live client and       *)
(* returns an error; Subscribe, Request and Handle after Close return and   *)
(* print what the same call did before Close.                               *)
(***************************************************************************)
C10_NoPublishAfterClose ==
  /\ (last.op = "Publish" /\ last.pre.closes > 0) =>
       /\ ext.delivered = last.pre.delivered
       /\ last.err # NIL
       /\ ext.lastPublish[1] = NIL
  /\ (/\ last.op \in {"Subscribe", "Request", "Handle"}
      /\ last.pre.closes > 0
      /\ first.pre.closes = 0
      /\ first.op = last.op /\ first.subject = last.subject /\ first.opts = last.opts) =>
       /\ last.res = first.res
       /\ last.err = first.err
       /\ last.printed = first.printed
       /\ last.invoked = first.invoked
       /\ NothingReachedClient

\* A Publish made after Close, following one delivered before Close.
C10_Witness ==
  /\ last.op = "Publish"
  /\ last.pre.closes > 0
  /\ last.pre.delivered > 0
  /\ last.err = "ErrInvalidConnection"

(***************************************************************************)
(* Two goroutines sharing one connection.  The wrapper takes no lock        *)
(* (main.go 117-127), so the three statements of Close                      *)
(*     if c.nc != nil { c.nc.Close(); c.nc = nil }                          *)
(* are steps of their own, and the reads and the write of c.nc race:        *)
(* c.nc.Close() is called on the value the test loaded or on the value the  *)
(* field holds by then.  Publish reads c.nc and calls the client in one     *)
(* step.                                                                    *)
(***************************************************************************)
Goroutines == {"g1", "g2"}
ConcMsgs == {StringVal(HelloWorld), IntVal(22)}

InitConc ==
  /\ nc = Client
  /\ ext = NewExt
  /\ last = NoCall
  /\ first = NoCall
  /\ gs = [pc |-> [g \in Goroutines |-> "idle"],
           loaded |-> [g \in Goroutines |-> NIL],
           closeReturned |-> FALSE]
  /\ proc = Idle
  /\ enc = Idle

\* if c.nc != nil
GoCloseTest(g) ==
  /\ gs.pc[g] = "idle"
  /\ gs' = IF nc # NIL
             THEN [gs EXCEPT !.pc[g] = "close client", !.loaded[g] = nc]
             ELSE [gs EXCEPT !.closeReturned = TRUE]
  /\ UNCHANGED <<nc, ext, last, first, proc, enc>>

\* c.nc.Close()
GoCloseClient(g) ==
  /\ gs.pc[g] = "close client"
  /\ \E r \in {gs.loaded[g], nc} : ext' = NatsClose(ext, r)
  /\ gs' = [gs EXCEPT !.pc[g] = "store nil"]
  /\ UNCHANGED <<nc, last, first, proc, enc>>

\* c.nc = nil, and Close returns
GoCloseStore(g) ==
  /\ gs.pc[g] = "store nil"
  /\ nc' = NIL
  /\ gs' = [gs EXCEPT !.pc[g] = "idle", !.loaded[g] = NIL, !.closeReturned = TRUE]
  /\ UNCHANGED <<ext, last, first, proc, enc>>

GoPublish(g, msg, out) ==
  /\ gs.pc[g] = "idle"
  /\ ext.publishes < MaxPublishes
  /\ LET r == Publish(nc, ext, "natsv2.foo", msg, out)
     IN  /\ nc' = r.nc
         /\ ext' = r.ext
  /\ UNCHANGED <<gs, last, first, proc, enc>>

NextConc ==
  \E g \in Goroutines :
    \/ GoCloseTest(g)
    \/ GoCloseClient(g)
    \/ GoCloseStore(g)
    \/ \E msg \in ConcMsgs, out \in ExtOutcomes : GoPublish(g, msg, out)

SpecConc == InitConc /\ [][NextConc]_vars

(***************************************************************************)
(* C9.  Close is idempotent: the external client's close is called once,    *)
(* by the first Close, and never again; once a Close has returned the       *)
(* wrapper holds no client.  Stated for one caller (under Spec) and for     *)
(* goroutines whose calls of Close interleave (under SpecConc).             *)
(***************************************************************************)
C9_ClientClosedOnce ==
  /\ ext.closes <= 1
  /\ gs.closeReturned => (nc = NIL /\ ext.closes = 1)

\* The same for one caller, whose calls of Close follow one another.
C9_ClientClosedOnceSequential ==
  /\ ext.closes <= 1
  /\ (last.op = "Close") =>
       /\ nc = NIL
       /\ ext.closes = 1
       /\ (last.pre.nc = NIL => NothingReachedClient)

(***************************************************************************)
(* The encoding helpers.  A run takes a value v and sends it through the    *)
(* pipeline of main, Base64(Gzip(JSON(v))) (main.go 162), and back; or it   *)
(* takes a byte string b and sends it through Base64 and through Gzip, and  *)
(* back.                                                                    *)
(***************************************************************************)
\* a " \ < and bytes that are UTF-8 only in the pair 195 169
EncChars == {97, 34, 92, 60, 195, 169, 255}
EncStrings == SeqsUpTo(EncChars, MaxChars)
ByteStrings == SeqsUpTo({0, 97, 255}, MaxBytes)
EncValues ==
  {StringVal(str) : str \in EncStrings}
    \cup {PersonPtr(str, Derek, 22) : str \in EncStrings}
    \cup {BytesVal(b) : b \in ByteStrings}
    \cup {IntVal(0), IntVal(22), IntVal(0 - 7), IntVal(1234), Me, ChanVal}

NoBytes == [ok |-> TRUE, out |-> <<>>]

InitEnc ==
  /\ nc = NIL
  /\ ext = NewExt
  /\ last = NoCall
  /\ first = NoCall
  /\ gs = Idle
  /\ proc = Idle
  /\ \E v \in EncValues, b \in ByteStrings, of \in {"value", "bytes"} :
       enc = [pc |-> "start", of |-> of,
              v |-> IF of = "value" THEN v ELSE ChanVal,
              b |-> IF of = "bytes" THEN b ELSE <<>>,
              json |-> <<>>, gz |-> <<>>, b64 |-> <<>>,
              d64 |-> NoBytes, dgz |-> NoBytes, dv |-> BadValue]

EncStep(of, from, to) ==
  /\ enc.of = of
  /\ enc.pc = from
  /\ UNCHANGED <<nc, ext, last, first, gs, proc>>

ApplyJSON ==
  /\ EncStep("value", "start", "json")
  /\ enc' = [enc EXCEPT !.pc = "json", !.json = JSON(enc.v)]

ApplyGzip ==
  /\ EncStep("value", "json", "gzip")
  /\ enc' = [enc EXCEPT !.pc = "gzip", !.gz = Gzip(enc.json)]

ApplyBase64 ==
  /\ EncStep("value", "gzip", "base64")
  /\ enc' = [enc EXCEPT !.pc = "base64", !.b64 = Base64(enc.gz)]

ReadBase64 ==
  /\ EncStep("value", "base64", "unbase64")
  /\ enc' = [enc EXCEPT !.pc = "unbase64", !.d64 = Base64Decode(enc.b64)]

ReadGzip ==
  /\ EncStep("value", "unbase64", "gunzip")
  /\ enc' = [enc EXCEPT !.pc = "gunzip", !.dgz = Gunzip(enc.d64.out)]

ReadJSON ==
  /\ EncStep("value", "gunzip", "unjson")
  /\ enc' = [enc EXCEPT !.pc = "unjson", !.dv = Unmarshal(enc.dgz.out, enc.v.t)]

BytesThroughBase64 ==
  /\ EncStep("bytes", "start", "base64")
  /\ enc' = [enc EXCEPT !.pc = "base64", !.b64 = Base64(enc.b),
                        !.d64 = Base64Decode(Base64(enc.b))]

BytesThroughGzip ==
  /\ EncStep("bytes", "base64", "gzip")
  /\ enc' = [enc EXCEPT !.pc = "gzip", !.gz = Gzip(enc.b), !.dgz = Gunzip(Gzip(enc.b))]

NextEnc ==
  \/ ApplyJSON
  \/ ApplyGzip
  \/ ApplyBase64
  \/ ReadBase64
  \/ ReadGzip
  \/ ReadJSON
  \/ BytesThroughBase64
  \/ BytesThroughGzip

SpecEnc == InitEnc /\ [][NextEnc]_vars

\* Base64 and Gzip read back give the bytes they were given.
BytesRoundTrip ==
  /\ (enc.of = "bytes" /\ enc.pc \in {"base64", "gzip"}) => enc.d64 = [ok |-> TRUE, out |-> enc.b]
  /\ (enc.of = "bytes" /\ enc.pc = "gzip") => enc.dgz = [ok |-> TRUE, out |-> enc.b]
  /\ (enc.of = "value" /\ enc.pc \in {"unbase64", "gunzip", "unjson"}) =>
       enc.d64 = [ok |-> TRUE, out |-> enc.gz]
  /\ (enc.of = "value" /\ enc.pc \in {"gunzip", "unjson"}) =>
       enc.dgz = [ok |-> TRUE, out |-> enc.json]

RECURSIVE ValidUTF8From(_, _)
ValidUTF8From(str, i) ==
  \/ i > Len(str)
  \/ (RuneSize(str, i) > 0 /\ ValidUTF8From(str, i + RuneSize(str, i)))

\* An int, a []byte, or a string or a person whose strings are valid UTF-8.
Encodable(v) ==
  /\ v.t \in {"int", "string", "[]byte", "*person"}
  /\ ValidUTF8From(v.s, 1) \/ v.t = "[]byte"
  /\ ValidUTF8From(v.a, 1)

ConnectOutcomes == {NIL, "ErrNoServers"}
HelloNATSWorld == <<72, 101, 108, 108, 111, 32, 78, 65, 84, 83, 32, 87, 111, 114, 108, 100>>

\* Connect (main.go 129-136): the Connection and the error it returns, and
\* the field of the wrapper.
Connect(out) ==
  IF out # NIL
    THEN [conn |-> NIL, nc |-> NIL, err |-> out, printed |-> <<>>]
    ELSE [conn |-> "conn", nc |-> Client, err |-> NIL, printed |-> <<"AAA">>]

\* The calls of main after the connection is made (main.go 147-181).
MainOps ==
  << [op |-> "Publish", subject |-> "natsv2.foo", msg |-> StringVal(HelloWorld), opts |-> <<>>],
     [op |-> "Publish", subject |-> "natsv2.foo", msg |-> IntVal(22), opts |-> <<>>],
     [op |-> "Publish", subject |-> "natsv2.foo", msg |-> Me, opts |-> <<>>],
     [op |-> "Publish", subject |-> "natsv2.foo", msg |-> BytesVal(JSON(Me)), opts |-> <<>>],
     [op |-> "Publish", subject |-> "natsv2.foo", msg |-> BytesVal(Base64(Gzip(JSON(Me)))),
      opts |-> <<>>],
     [op |-> "Subscribe", subject |-> "foo", msg |-> NoMsg, opts |-> <<>>],
     [op |-> "Subscribe", subject |-> "foo", msg |-> NoMsg, opts |-> <<Queue("bar")>>],
     [op |-> "Subscribe", subject |-> "foo", msg |-> NoMsg, opts |-> <<Handler("h1")>>],
     [op |-> "Request", subject |-> "service", msg |-> RequestMsg, opts |-> <<>>],
     [op |-> "Request", subject |-> "service", msg |-> RequestMsg, opts |-> <<Timeout(2)>>],
     [op |-> "Request", subject |-> "service", msg |-> RequestMsg, opts |-> <<Ctx("ctx1")>>],
     [op |-> "Handle", subject |-> "foo", msg |-> NoMsg, opts |-> <<>>],
     [op |-> "Close", subject |-> "", msg |-> NoMsg, opts |-> <<>>] >>

\* conn is the Connection the program holds and client2 the client of foo;
\* failed says that a connection attempt failed, since counts the steps the
\* program took after that, and onFailed says that a call was made on what
\* a failed attempt returned.
InitMain ==
  /\ nc = NIL
  /\ ext = [NewExt EXCEPT !.open = FALSE]
  /\ last = NoCall
  /\ first = NoCall
  /\ gs = Idle
  /\ enc = Idle
  /\ \E file \in {"main.go", "part_000"} :
       proc = [file |-> file,
               pc |-> IF file = "part_000" THEN "foo_connect" ELSE "connect",
               step |-> 1, conn |-> NIL, client2 |-> NIL, err |-> NIL,
               failed |-> FALSE, since |-> 0, onFailed |-> FALSE,
               logged |-> <<>>, exit |-> "running"]

Running(pc) ==
  /\ proc.exit = "running"
  /\ proc.pc = pc
  /\ UNCHANGED <<last, first, gs, enc>>

Stepped(p) == [p EXCEPT !.since = IF proc.failed THEN @ + 1 ELSE @]

\* nc, _ := Connect("demo.nats.io")
FooConnect(out) ==
  /\ Running("foo_connect")
  /\ LET r == Connect(out)
     IN  /\ nc' = r.nc
         /\ ext' = IF out = NIL THEN [ext EXCEPT !.open = TRUE] ELSE ext
         /\ proc' = [Stepped(proc) EXCEPT !.pc = "foo_publish", !.conn = r.conn,
                                          !.failed = @ \/ out # NIL]

\* nc.Publish(subj, "Hello World!"): a method call on a nil Connection panics
FooPublish(out) ==
  /\ Running("foo_publish")
  /\ IF proc.conn = NIL
       THEN /\ proc' = [Stepped(proc) EXCEPT !.exit = "panic", !.onFailed = TRUE]
            /\ UNCHANGED <<nc, ext>>
       ELSE LET r == Publish(nc, ext, "natsv2.x.foo", StringVal(HelloWorld), out)
            IN  /\ nc' = r.nc
                /\ ext' = r.ext
                /\ proc' = [Stepped(proc) EXCEPT !.pc = "foo_connect2"]

\* nc2, _ := nats.Connect("demo.nats.io")
FooClientConnect(out) ==
  /\ Running("foo_connect2")
  /\ ext' = IF out = NIL THEN [ext EXCEPT !.open = TRUE] ELSE ext
  /\ proc' = [Stepped(proc) EXCEPT !.pc = "foo_publish2",
                                   !.client2 = IF out = NIL THEN Client ELSE NIL,
                                   !.failed = @ \/ out # NIL]
  /\ UNCHANGED nc

\* nc2.Publish(subj, []byte("Hello NATS World")), and foo returns
FooClientPublish(out) ==
  /\ Running("foo_publish2")
  /\ ext' = NatsPublish(ext, proc.client2, "natsv2.x.foo", HelloNATSWorld, out)
  /\ proc' = [Stepped(proc) EXCEPT !.pc = "connect", !.conn = NIL,
                                   !.onFailed = @ \/ proc.client2 = NIL]
  /\ UNCHANGED nc

\* nc, err := Connect("demo.nats.io")
MainConnect(out) ==
  /\ Running("connect")
  /\ LET r == Connect(out)
     IN  /\ nc' = r.nc
         /\ ext' = IF out = NIL THEN [ext EXCEPT !.open = TRUE] ELSE ext
         /\ proc' = [Stepped(proc) EXCEPT !.pc = "check", !.conn = r.conn, !.err = r.err,
                                          !.failed = @ \/ out # NIL]

\* if err != nil { log.Fatalf("Could not connect: %v\n", err) }
MainCheck ==
  /\ Running("check")
  /\ proc' = IF proc.err # NIL
               THEN [Stepped(proc) EXCEPT !.logged = Append(@, proc.err), !.exit = "fatal"]
               ELSE [Stepped(proc) EXCEPT !.pc = "calls"]
  /\ UNCHANGED <<nc, ext>>

MainCall(op) ==
  /\ Running("calls")
  /\ MainOps[proc.step].op = op

MainReturned(r) ==
  /\ nc' = r.nc
  /\ ext' = r.ext
  /\ proc' = [Stepped(proc) EXCEPT !.step = @ + 1, !.onFailed = @ \/ proc.conn = NIL]

MainPublish(out) ==
  /\ MainCall("Publish")
  /\ MainReturned(Publish(nc, ext, MainOps[proc.step].subject, MainOps[proc.step].msg, out))

MainSubscribe ==
  /\ MainCall("Subscribe")
  /\ MainReturned(Subscribe(nc, ext, MainOps[proc.step].subject, MainOps[proc.step].opts))

MainRequest ==
  /\ MainCall("Request")
  /\ MainReturned(Request(nc, ext, MainOps[proc.step].subject, MainOps[proc.step].msg,
                          MainOps[proc.step].opts))

MainHandle ==
  /\ MainCall("Handle")
  /\ MainReturned(Handle(nc, ext, MainOps[proc.step].subject, "handler"))

\* nc.Close(), and main returns
MainClose ==
  /\ MainCall("Close")
  /\ LET r == Close(nc, ext)
     IN  /\ nc' = r.nc
         /\ ext' = r.ext
         /\ proc' = [Stepped(proc) EXCEPT !.step = @ + 1, !.exit = "returned",
                                          !.onFailed = @ \/ proc.conn = NIL]

NextMain ==
  \/ \E out \in ConnectOutcomes : FooConnect(out)
  \/ \E out \in ExtOutcomes : FooPublish(out)
  \/ \E out \in ConnectOutcomes : FooClientConnect(out)
  \/ \E out \in ExtOutcomes : FooClientPublish(out)
  \/ \E out \in ConnectOutcomes : MainConnect(out)
  \/ MainCheck
  \/ \E out \in ExtOutcomes : MainPublish(out)
  \/ MainSubscribe
  \/ MainRequest
  \/ MainHandle
  \/ MainClose

SpecMain == InitMain /\ [][NextMain]_vars

\* After a failed attempt the program takes one step and no more: the one
\* that logs the error and stops it.
FailureIsFatal ==
  /\ ~proc.onFailed
  /\ proc.failed => proc.since <= 1
  /\ (proc.failed /\ proc.since = 1) => (proc.exit = "fatal" /\ proc.logged # <<>>)
  /\ (proc.pc = "check" /\ proc.failed /\ proc.since = 0) => (proc.err # NIL /\ proc.conn = NIL)

(***************************************************************************)
(* C5.  A connection failure is fatal in every program that calls Connect:  *)
(* Connect returns an error and no connection, the failure is logged and    *)
(* the process exits, and no call is made on the connection that failed.    *)
(***************************************************************************)
C5_ConnectionFailureFatal == FailureIsFatal

\* What holds: the failure is fatal in main of main.go.
FatalInMainGo == proc.file = "main.go" => FailureIsFatal

=============================================================================
